---- MODULE Spec2Model ----
(***************************************************************************)
(* Kerberos message-integrity helpers of sspi-rs (src/kerberos/utils.rs):  *)
(* serialize_message, validate_mic_token, generate_initiator_raw,          *)
(* unwrap_hostname and parse_target_name.                                  *)
(*                                                                         *)
(* Bytes are the integers 0..255, byte strings and Rust strings (UTF-8)    *)
(* are sequences of bytes.  A Result is a record with ok = TRUE and the    *)
(* value, or ok = FALSE and the error kind.  An Option is a record with    *)
(* some = TRUE and the value, or some = FALSE.                             *)
(***************************************************************************)
EXTENDS Integers, Sequences, FiniteSets, Bags, TLC

VARIABLES
    params,      \* the EncryptionParams of the security context
    wire,        \* the raw MIC token in flight to the verifier
    origin,      \* how the token in flight was made (call of the generator, tampering)
    gen,         \* the last call of generate_initiator_raw and its result
    verdict,     \* the last call of validate_mic_token on (wire, params) and its result
    spn,         \* the last call of parse_target_name / unwrap_hostname and its result
    framed       \* the last call of serialize_message and its result

vars == <<params, wire, origin, gen, verdict, spn, framed>>

----------------------------------------------------------------------------
(* Bounds of the model *)

\* longest target name given to parse_target_name, in bytes
MaxLen == 4

\* largest sequence number given to the generator (besides 0); sequence
\* numbers are u64 and stay below 2^31 here
MaxSeq == 258

----------------------------------------------------------------------------
(* Bytes *)

Byte == 0..255

RECURSIVE to_be_bytes(_, _)
\* n.to_be_bytes() of an unsigned integer of w bytes
to_be_bytes(n, w) ==
    IF w = 0 THEN <<>> ELSE Append(to_be_bytes(n \div 256, w - 1), n % 256)

RECURSIVE from_be_bytes(_)
\* read_uN::<BigEndian>() of a byte string
from_be_bytes(bs) ==
    IF Len(bs) = 0 THEN 0
    ELSE from_be_bytes(SubSeq(bs, 1, Len(bs) - 1)) * 256 + bs[Len(bs)]

\* bs[from..] of Rust, from 0-based
Tail0(bs, from) == SubSeq(bs, from + 1, Len(bs))

\* bs[from..to] of Rust, 0-based, to exclusive
Slice0(bs, from, to) == SubSeq(bs, from + 1, to)

None == [some |-> FALSE, v |-> <<>>]
Some(x) == [some |-> TRUE, v |-> x]

Ok(x) == [ok |-> TRUE, kind |-> "Ok", val |-> x]
Err(k) == [ok |-> FALSE, kind |-> k, val |-> <<>>]

----------------------------------------------------------------------------
(* unwrap_hostname and parse_target_name *)

\* '/'
Slash == 47

\* the bytes target names are made of: '/', 'E', 'p'
NameBytes == {Slash, 69, 112}

RECURSIVE SeqsUpTo(_, _)
\* the byte strings over S of at most n bytes
SeqsUpTo(S, n) ==
    IF n = 0 THEN {<<>>}
    ELSE LET shorter == SeqsUpTo(S, n - 1)
         IN  shorter \cup {Append(s, b) : s \in {t \in shorter : Len(t) = n - 1}, b \in S}

Names == SeqsUpTo(NameBytes, MaxLen)

\* str::find(c): the 0-based byte index of the first c, if any
find(s, c) ==
    IF \E i \in 1..Len(s) : s[i] = c
    THEN Some((CHOOSE i \in 1..Len(s) : s[i] = c /\ \A j \in 1..(i - 1) : s[j] # c) - 1)
    ELSE None

unwrap_hostname(hostname) ==
    IF hostname.some THEN Ok(<<hostname.v>>) ELSE Err("InvalidParameter")

\* str::rfind(c): the 0-based byte index of the last c, if any
rfind(s, c) ==
    IF \E i \in 1..Len(s) : s[i] = c
    THEN Some((CHOOSE i \in 1..Len(s) : s[i] = c /\ \A j \in (i + 1)..Len(s) : s[j] # c) - 1)
    ELSE None

\* the parser with the test of the last character forgotten
parse_target_name_no_trailing_check(target_name) ==
    LET found == find(target_name, Slash)
    IN  IF ~found.some THEN Err("InvalidParameter")
        ELSE LET divider == found.v
             IN  IF divider = 0 THEN Err("InvalidParameter")
                 ELSE Ok(<<Slice0(target_name, 0, divider), Tail0(target_name, divider + 1)>>)

\* the parser keeping the '/' in the second part
parse_target_name_keeps_slash(target_name) ==
    LET found == find(target_name, Slash)
    IN  IF ~found.some THEN Err("InvalidParameter")
        ELSE LET divider == found.v
             IN  IF divider = 0 \/ divider = Len(target_name) - 1
                 THEN Err("InvalidParameter")
                 ELSE Ok(<<Slice0(target_name, 0, divider), Tail0(target_name, divider)>>)

\* the parser splitting at the last '/'
parse_target_name_last_slash(target_name) ==
    LET found == rfind(target_name, Slash)
    IN  IF ~found.some THEN Err("InvalidParameter")
        ELSE LET divider == found.v
             IN  IF divider = 0 \/ divider = Len(target_name) - 1
                 THEN Err("InvalidParameter")
                 ELSE Ok(<<Slice0(target_name, 0, divider), Tail0(target_name, divider + 1)>>)

\* parse_target_name(target_name).  `target_name.len() - 1` is a subtraction
\* of usize, which panics on an empty string (it wraps in a build without
\* overflow checks, and the comparison is then false); both slices are
\* within the string and on character boundaries, '/' being one byte.
parse_target_name(target_name) ==
    LET found == find(target_name, Slash)
    IN  IF ~found.some THEN Err("InvalidParameter")
        ELSE LET divider == found.v
             IN  IF divider # 0 /\ Len(target_name) = 0 THEN Err("panic")
                 ELSE IF divider = 0 \/ divider = Len(target_name) - 1
                 THEN Err("InvalidParameter")
                 ELSE Ok(<<Slice0(target_name, 0, divider), Tail0(target_name, divider + 1)>>)

NoCall == [op |-> "none", arg |-> None, res |-> Err("none")]

ParseTargetName(s) ==
    /\ spn' = [op |-> "parse_target_name", arg |-> Some(s), res |-> parse_target_name(s)]
    /\ UNCHANGED <<params, wire, origin, gen, verdict, framed>>

UnwrapHostname(h) ==
    /\ spn' = [op |-> "unwrap_hostname", arg |-> h, res |-> unwrap_hostname(h)]
    /\ UNCHANGED <<params, wire, origin, gen, verdict, framed>>

----------------------------------------------------------------------------
(* serialize_message *)

\* A usize (64 bits) is four limbs of 16 bits, most significant first; a
\* u32 is two limbs.
Limb == 65536

\* the high limb of the largest encoded body (bodies of up to (MaxHigh+1) * 4 GiB)
MaxHigh == 1

usize(n) == <<0, 0, 0, n>>

\* x + y of usize, without overflow of the 64 bits in the model's range
usize_add(x, y) ==
    LET s4 == x[4] + y[4]
        s3 == x[3] + y[3] + (s4 \div Limb)
        s2 == x[2] + y[2] + (s3 \div Limb)
        s1 == x[1] + y[1] + (s2 \div Limb)
    IN  <<s1 % Limb, s2 % Limb, s3 % Limb, s4 % Limb>>

\* `x as u32`: the low 32 bits
as_u32(x) == <<x[3], x[4]>>

\* a - k of u32 underflows, k < 2^16
u32_sub_underflows(a, k) == a[1] = 0 /\ a[2] < k

\* a.wrapping_sub(k) of u32, k < 2^16
u32_wrapping_sub(a, k) ==
    IF a[2] >= k THEN <<a[1], a[2] - k>>
    ELSE <<(a[1] + Limb - 1) % Limb, a[2] + Limb - k>>

u32_to_be_bytes(a) == to_be_bytes(a[1], 2) \o to_be_bytes(a[2], 2)

\* a 4-byte big-endian length descriptor read as an unsigned integer
be_u32_as_usize(bs) ==
    <<0, 0, from_be_bytes(SubSeq(bs, 1, 2)), from_be_bytes(SubSeq(bs, 3, 4))>>

\* The values given to serialize_message: whether picky_asn1_der accepts the
\* value, and the length of its DER encoding.
LowLimbs == {0, 1, 4, Limb - 5, Limb - 4, Limb - 1}

Messages ==
    [encodable : BOOLEAN,
     der_len : {<<0, h, m, l>> : h \in 0..MaxHigh, m \in LowLimbs, l \in LowLimbs}]

NoBuffer == [head |-> <<>>, len |-> usize(0)]

\* serialize_message(v); the buffer is its first four bytes and its length.
\* overflow_checks is the build's setting: `data.len() as u32 - 4` panics
\* under it when it underflows, and wraps otherwise.
serialize_message(v, overflow_checks) ==
    LET reserved == [head |-> <<0, 0, 0, 0>>, len |-> usize(4)]
    IN  IF ~v.encodable THEN [ok |-> FALSE, kind |-> "EncodingFailure", val |-> NoBuffer]
        ELSE LET data == [reserved EXCEPT !.len = usize_add(reserved.len, v.der_len)]
                 len32 == as_u32(data.len)
             IN  IF u32_sub_underflows(len32, 4) /\ overflow_checks
                 THEN [ok |-> FALSE, kind |-> "panic", val |-> NoBuffer]
                 ELSE [ok |-> TRUE, kind |-> "Ok",
                       val |-> [data EXCEPT !.head = u32_to_be_bytes(u32_wrapping_sub(len32, 4))]]

NoMessage == [encodable |-> FALSE, der_len |-> usize(0)]

SerializeMessage(v, overflow_checks) ==
    /\ framed' = [op |-> "serialize_message", arg |-> v, res |-> serialize_message(v, overflow_checks)]
    /\ UNCHANGED <<params, wire, origin, gen, verdict, spn>>

----------------------------------------------------------------------------
(* The MIC token of picky_krb::gss_api *)

MIC_TOKEN_ID == <<4, 4>>
MIC_FILLER == <<255, 255, 255, 255, 255>>

\* the flags of a token sent by the initiator: the SentByAcceptor bit (1) is clear
MIC_TOKEN_INITIATOR_DEFAULT_FLAGS == 4
MIC_TOKEN_ACCEPTOR_DEFAULT_FLAGS == 5

\* the initiator bit of the flags: the token was not sent by the acceptor
is_initiator(flags) == flags % 2 = 0

\* MicToken::with_initiator_flags()
with_initiator_flags ==
    [flags |-> MIC_TOKEN_INITIATOR_DEFAULT_FLAGS, seq_num |-> 0, checksum |-> <<>>]

\* MicToken::with_seq_number(self, seq_num)
with_seq_number(token, seq_num) == [token EXCEPT !.seq_num = seq_num]

\* MicToken::set_checksum(&mut self, checksum)
set_checksum(token, checksum) == [token EXCEPT !.checksum = checksum]

\* MicToken::header(): the 16 bytes before the checksum
header(token) ==
    MIC_TOKEN_ID \o <<token.flags>> \o MIC_FILLER \o to_be_bytes(token.seq_num, 8)

HeaderLen == 16

\* MicToken::encode(): the header, then the checksum
encode(token) == header(token) \o token.checksum

NoToken == [flags |-> 0, seq_num |-> 0, checksum |-> <<>>]

\* MicToken::decode(): fails on a short header, a wrong token id or a wrong
\* filler; the checksum is whatever follows the header
decode(raw) ==
    IF Len(raw) < HeaderLen
           \/ SubSeq(raw, 1, 2) # MIC_TOKEN_ID
           \/ SubSeq(raw, 4, 8) # MIC_FILLER
    THEN [ok |-> FALSE, kind |-> "TokenDecodeFailure", val |-> NoToken]
    ELSE [ok |-> TRUE, kind |-> "Ok",
          val |-> [flags |-> raw[3],
                   seq_num |-> from_be_bytes(SubSeq(raw, 9, 16)),
                   checksum |-> Tail0(raw, HeaderLen)]]

----------------------------------------------------------------------------
(* The keyed checksum of picky_krb::crypto::aes, key sizes and digest size *)
(* scaled down, the digest a mixing function with no collision on the     *)
(* inputs of the model.                                                   *)

INITIATOR_SIGN == 25
ACCEPTOR_SIGN == 23

AesSizes == {"Aes128", "Aes256"}

\* AesSize::key_length(), in bytes (16 and 32 in the library)
key_length(aes_size) == IF aes_size = "Aes128" THEN 1 ELSE 2

\* the length of the checksum, in bytes
checksum_length(aes_size) == IF aes_size = "Aes128" THEN 2 ELSE 4

DigestModulus == 65521

\* the sum over the bytes of bs, each weighted by its position (a bag's
\* cardinality is the sum of its counts)
weighted_sum(bs, m) ==
    BagCardinality([i \in 1..Len(bs) |-> (bs[i] + 1) * (((i * m) % 251) + 1)])

\* the state acc after the bytes bs, with multiplier m
absorb(acc, bs, m) == (acc * 31 + weighted_sum(bs, m)) % DigestModulus

\* derive_key(key, usage_kc(key_usage), aes_size)
derive_key(key, key_usage, aes_size) ==
    absorb(absorb(key_length(aes_size), <<key_usage>>, 251), key, 251)

\* hmac_sha1(kc, payload, n), truncated to n bytes
hmac(kc, payload, n) ==
    SubSeq(to_be_bytes(absorb(kc, payload, 251), 2)
               \o to_be_bytes(absorb(kc + 1, payload, 239), 2), 1, n)

\* checksum_sha_aes(key, key_usage, payload, aes_size): fails on a key whose
\* length is not the one of aes_size
checksum_sha_aes(key, key_usage, payload, aes_size) ==
    IF Len(key) # key_length(aes_size) THEN Err("EncodingFailure")
    ELSE Ok(hmac(derive_key(key, key_usage, aes_size), payload, checksum_length(aes_size)))

\* picky_asn1_der::to_vec(&get_mech_list()): SEQUENCE { ms_krb5 OID, krb5 OID }
MechListDer ==
    <<48, 22, 6, 9, 42, 134, 72, 130, 247, 18, 1, 2, 2,
              6, 9, 42, 134, 72, 134, 247, 18, 1, 2, 2>>

----------------------------------------------------------------------------
(* EncryptionParams *)

\* EncryptionParams::aes_size(): the negotiated strength, if any
aes_size(p) == IF p.aes_strength = "Unset" THEN None ELSE Some(p.aes_strength)

\* Option::unwrap_or
unwrap_or(opt, default) == IF opt.some THEN opt.v ELSE default

----------------------------------------------------------------------------
(* validate_mic_token and generate_initiator_raw *)

\* the key chosen with the session key preferred
select_key_session_first(p) ==
    IF p.session_key.some THEN p.session_key
    ELSE IF p.sub_session_key.some THEN p.sub_session_key
    ELSE None

\* the key validate_mic_token checks with: the sub-session key is always
\* preferred over the session key
select_key(p) ==
    IF p.sub_session_key.some THEN p.sub_session_key
    ELSE IF p.session_key.some THEN p.session_key
    ELSE None

\* the verifier falling back to an empty key when the params hold none
validate_mic_token_empty_key(raw_token, key_usage, p) ==
    LET decoded == decode(raw_token)
    IN  IF ~decoded.ok THEN Err(decoded.kind)
        ELSE LET token == decoded.val
                 payload == MechListDer \o header(token)
                 key == select_key(p)
                 checksum == checksum_sha_aes(unwrap_or(key, <<>>), key_usage, payload,
                                              unwrap_or(aes_size(p), "Aes256"))
             IN  IF ~checksum.ok THEN Err(checksum.kind)
                 ELSE IF checksum.val # token.checksum THEN Err("MessageAltered")
                 ELSE Ok(<<>>)

\* the verifier comparing only the first byte of the checksum
validate_mic_token_first_byte(raw_token, key_usage, p) ==
    LET decoded == decode(raw_token)
    IN  IF ~decoded.ok THEN Err(decoded.kind)
        ELSE LET token == decoded.val
                 payload == MechListDer \o header(token)
                 key == select_key(p)
             IN  IF ~key.some THEN Err("DecryptFailure")
                 ELSE LET checksum == checksum_sha_aes(key.v, key_usage, payload,
                                                       unwrap_or(aes_size(p), "Aes256"))
                      IN  IF ~checksum.ok THEN Err(checksum.kind)
                          ELSE IF Len(token.checksum) = 0
                                      \/ checksum.val[1] # token.checksum[1]
                               THEN Err("MessageAltered")
                          ELSE Ok(<<>>)

\* the verifier always checking at Aes256, whatever the params say
validate_mic_token_fixed_strength(raw_token, key_usage, p) ==
    LET decoded == decode(raw_token)
    IN  IF ~decoded.ok THEN Err(decoded.kind)
        ELSE LET token == decoded.val
                 payload == MechListDer \o header(token)
                 key == select_key(p)
             IN  IF ~key.some THEN Err("DecryptFailure")
                 ELSE LET checksum == checksum_sha_aes(key.v, key_usage, payload, "Aes256")
                      IN  IF ~checksum.ok THEN Err(checksum.kind)
                          ELSE IF checksum.val # token.checksum THEN Err("MessageAltered")
                          ELSE Ok(<<>>)

validate_mic_token(raw_token, key_usage, p) ==
    LET decoded == decode(raw_token)
    IN  IF ~decoded.ok THEN Err(decoded.kind)
        ELSE LET token == decoded.val
                 payload == MechListDer \o header(token)
                 key == select_key(p)
             IN  IF ~key.some THEN Err("DecryptFailure")
                 ELSE LET checksum == checksum_sha_aes(key.v, key_usage, payload,
                                                       unwrap_or(aes_size(p), "Aes256"))
                      IN  IF ~checksum.ok THEN Err(checksum.kind)
                          ELSE IF checksum.val # token.checksum THEN Err("MessageAltered")
                          ELSE Ok(<<>>)

\* the generator signing with the acceptor's key usage
generate_initiator_raw_acceptor_usage(payload, seq_number, session_key) ==
    LET mic_token == with_seq_number(with_initiator_flags, seq_number)
        signed == payload \o header(mic_token)
        checksum == checksum_sha_aes(session_key, ACCEPTOR_SIGN, signed, "Aes256")
    IN  IF ~checksum.ok THEN Err(checksum.kind)
        ELSE Ok(encode(set_checksum(mic_token, checksum.val)))

\* the generator returning the token unsigned when the checksum fails
generate_initiator_raw_unsigned(payload, seq_number, session_key) ==
    LET mic_token == with_seq_number(with_initiator_flags, seq_number)
        signed == payload \o header(mic_token)
        checksum == checksum_sha_aes(session_key, INITIATOR_SIGN, signed, "Aes256")
    IN  IF ~checksum.ok THEN Ok(encode(mic_token))
        ELSE Ok(encode(set_checksum(mic_token, checksum.val)))

generate_initiator_raw(payload, seq_number, session_key) ==
    LET mic_token == with_seq_number(with_initiator_flags, seq_number)
        signed == payload \o header(mic_token)
        checksum == checksum_sha_aes(session_key, INITIATOR_SIGN, signed, "Aes256")
    IN  IF ~checksum.ok THEN Err(checksum.kind)
        ELSE Ok(encode(set_checksum(mic_token, checksum.val)))

----------------------------------------------------------------------------
(* The inputs of the model *)

\* two keys of the length of Aes256 and one of the length of Aes128
Key1 == <<17, 34>>
Key2 == <<17, 35>>
KeyShort == <<51>>
Keys == {Key1, Key2, KeyShort}
KeyOptions == {None} \cup {Some(k) : k \in Keys}

Strengths == {"Unset", "Aes128", "Aes256"}

\* the payloads given to the generator: the mechanism list and another one
Payloads == {MechListDer, <<1, 2, 3>>}

SeqNumbers == {0, MaxSeq}

KeyUsages == {INITIATOR_SIGN, ACCEPTOR_SIGN}

\* tokens a peer can send that no generator made: empty, truncated, wrong
\* token id, wrong filler, no checksum, and an acceptor's token
ForeignTokens ==
    {<<>>,
     <<4, 4, 4, 255>>,
     <<5, 4, 4>> \o MIC_FILLER \o to_be_bytes(0, 8) \o <<1, 2, 3, 4>>,
     <<4, 4, 4, 255, 255, 0, 255, 255>> \o to_be_bytes(0, 8) \o <<1, 2, 3, 4>>,
     MIC_TOKEN_ID \o <<MIC_TOKEN_INITIATOR_DEFAULT_FLAGS>> \o MIC_FILLER \o to_be_bytes(1, 8),
     MIC_TOKEN_ID \o <<MIC_TOKEN_ACCEPTOR_DEFAULT_FLAGS>> \o MIC_FILLER \o to_be_bytes(1, 8)
         \o <<9, 9, 9, 9>>}

\* byte b with bit k (0..7) flipped
flip_bit(b, k) == IF (b \div (2 ^ k)) % 2 = 0 THEN b + 2 ^ k ELSE b - 2 ^ k

\* raw with bit n (from 0) of its checksum field flipped
flip_checksum_bit(raw, n) ==
    [raw EXCEPT ![HeaderLen + 1 + (n \div 8)] = flip_bit(@, n % 8)]

----------------------------------------------------------------------------
(* State and actions *)

NoParams == [session_key |-> None, sub_session_key |-> None, aes_strength |-> "Unset"]
NoGen == [called |-> FALSE, payload |-> <<>>, seq_number |-> 0, session_key |-> <<>>,
          res |-> Err("none")]
NoVerdict == [called |-> FALSE, key_usage |-> 0, res |-> Err("none")]
NoOrigin == [made |-> "none", flipped |-> -1]

Init ==
    /\ params = NoParams
    /\ wire = None
    /\ origin = NoOrigin
    /\ gen = NoGen
    /\ verdict = NoVerdict
    /\ spn = NoCall
    /\ framed = [op |-> "none", arg |-> NoMessage,
                 res |-> [ok |-> FALSE, kind |-> "none", val |-> NoBuffer]]

\* the security context records the session key
SetSessionKey(k) ==
    /\ params' = [params EXCEPT !.session_key = k]
    /\ verdict' = NoVerdict
    /\ UNCHANGED <<wire, origin, gen, spn, framed>>

\* the security context records a negotiated sub-session key
SetSubSessionKey(k) ==
    /\ params' = [params EXCEPT !.sub_session_key = k]
    /\ verdict' = NoVerdict
    /\ UNCHANGED <<wire, origin, gen, spn, framed>>

\* the security context records the negotiated encryption type
SetStrength(a) ==
    /\ params' = [params EXCEPT !.aes_strength = a]
    /\ verdict' = NoVerdict
    /\ UNCHANGED <<wire, origin, gen, spn, framed>>

\* the initiator calls generate_initiator_raw and sends the token it returns;
\* one token is in flight at a time
Generate(payload, seq_number, session_key) ==
    LET res == generate_initiator_raw(payload, seq_number, session_key)
    IN  /\ ~wire.some
        /\ gen' = [called |-> TRUE, payload |-> payload, seq_number |-> seq_number,
                   session_key |-> session_key, res |-> res]
        /\ wire' = IF res.ok THEN Some(res.val) ELSE None
        /\ origin' = IF res.ok THEN [made |-> "generated", flipped |-> -1] ELSE NoOrigin
        /\ verdict' = NoVerdict
        /\ UNCHANGED <<params, spn, framed>>

\* one bit of the checksum field of the generated token changes in flight
Tamper(n) ==
    /\ origin.made = "generated"
    /\ origin.flipped = -1
    /\ n < 8 * (Len(wire.v) - HeaderLen)
    /\ wire' = Some(flip_checksum_bit(wire.v, n))
    /\ origin' = [origin EXCEPT !.flipped = n]
    /\ verdict' = NoVerdict
    /\ UNCHANGED <<params, gen, spn, framed>>

\* a peer sends a token of its own
Inject(raw) ==
    /\ ~wire.some
    /\ wire' = Some(raw)
    /\ origin' = [made |-> "foreign", flipped |-> -1]
    /\ gen' = NoGen
    /\ verdict' = NoVerdict
    /\ UNCHANGED <<params, spn, framed>>

\* the token in flight is consumed, or lost
Discard ==
    /\ wire.some
    /\ wire' = None
    /\ origin' = NoOrigin
    /\ gen' = NoGen
    /\ verdict' = NoVerdict
    /\ UNCHANGED <<params, spn, framed>>

\* the acceptor calls validate_mic_token on the token in flight
Validate(key_usage) ==
    /\ wire.some
    /\ verdict' = [called |-> TRUE, key_usage |-> key_usage,
                   res |-> validate_mic_token(wire.v, key_usage, params)]
    /\ UNCHANGED <<params, wire, origin, gen, spn, framed>>

NextMic ==
    \/ \E k \in KeyOptions : SetSessionKey(k)
    \/ \E k \in KeyOptions : SetSubSessionKey(k)
    \/ \E a \in Strengths : SetStrength(a)
    \/ \E payload \in Payloads, seq_number \in SeqNumbers, key \in Keys :
           Generate(payload, seq_number, key)
    \/ \E n \in 0..31 : Tamper(n)
    \/ \E raw \in ForeignTokens : Inject(raw)
    \/ \E key_usage \in KeyUsages : Validate(key_usage)
    \/ Discard

NextSpn ==
    \/ \E s \in Names : ParseTargetName(s)
    \/ \E h \in {None} \cup {Some(s) : s \in Names} : UnwrapHostname(h)

NextFrame ==
    \E v \in Messages, overflow_checks \in BOOLEAN : SerializeMessage(v, overflow_checks)

\* the integrity tokens of a security context
SpecMic == Init /\ [][NextMic]_vars

\* the target name of a request
SpecSpn == Init /\ [][NextSpn]_vars

\* the framing of the handshake's messages
SpecFrame == Init /\ [][NextFrame]_vars

----------------------------------------------------------------------------
(* Properties of generate_initiator_raw and validate_mic_token (SpecMic) *)

\* the verifier is given key as the key it verifies with: as the sub-session
\* key, or as the session key with no sub-session key
VerifiedWith(key) ==
    \/ params.sub_session_key = Some(key)
    \/ ~params.sub_session_key.some /\ params.session_key = Some(key)

\* the token in flight is the one the generator returned, unchanged
Untouched == gen.called /\ gen.res.ok /\ origin.made = "generated" /\ origin.flipped = -1

\* the token in flight is the one the generator returned with one bit of its
\* checksum field changed
OneBitFlipped == gen.called /\ gen.res.ok /\ origin.made = "generated" /\ origin.flipped >= 0

\* the verifier checks at the strength the generator signs at
StrengthOfGenerator == params.aes_strength \in {"Unset", "Aes256"}

\* C1 as stated: for all payloads, sequence numbers and keys, the token the
\* generator returns is accepted by the verifier given the same key and the
\* key usage INITIATOR_SIGN.
C1_RoundTripAnyPayload ==
    (verdict.called /\ Untouched /\ verdict.key_usage = INITIATOR_SIGN
        /\ VerifiedWith(gen.session_key))
    => verdict.res.ok

\* C1 amended: the token the generator returns for the encoded mechanism list
\* as payload, any sequence number and any key, is accepted by the verifier
\* given the same key, the key usage INITIATOR_SIGN and params whose strength
\* is Aes256 or unset.
C1_RoundTrip ==
    (verdict.called /\ Untouched /\ verdict.key_usage = INITIATOR_SIGN
        /\ VerifiedWith(gen.session_key)
        /\ gen.payload = MechListDer /\ StrengthOfGenerator)
    => verdict.res.ok

C1_Witness ==
    /\ verdict.called /\ Untouched /\ verdict.key_usage = INITIATOR_SIGN
    /\ VerifiedWith(gen.session_key)
    /\ gen.payload = MechListDer /\ StrengthOfGenerator
    /\ gen.seq_number = MaxSeq
    /\ verdict.res.ok

\* C2 as stated: with one bit of the checksum field of a generated token
\* changed, the verifier given the generator's key and key usage returns
\* MessageAltered, never Ok and no other error.
C2_BitFlipAnyStrength ==
    (verdict.called /\ OneBitFlipped /\ verdict.key_usage = INITIATOR_SIGN
        /\ VerifiedWith(gen.session_key))
    => verdict.res.kind = "MessageAltered"

\* C2 amended: with one bit of the checksum field of a generated token
\* changed, the verifier given the generator's key and key usage, and params
\* whose strength is Aes256 or unset, returns MessageAltered.
C2_BitFlip ==
    (verdict.called /\ OneBitFlipped /\ verdict.key_usage = INITIATOR_SIGN
        /\ VerifiedWith(gen.session_key) /\ StrengthOfGenerator)
    => verdict.res.kind = "MessageAltered"

C2_Witness ==
    /\ verdict.called /\ OneBitFlipped /\ verdict.key_usage = INITIATOR_SIGN
    /\ VerifiedWith(gen.session_key) /\ StrengthOfGenerator
    /\ gen.payload = MechListDer
    /\ origin.flipped = 31
    /\ verdict.res.kind = "MessageAltered"

\* the result of the verifier does not depend on the session key when a
\* sub-session key is present, and is the one of the session key alone when
\* it is absent
KeyPrecedence ==
    verdict.called =>
        /\ params.sub_session_key.some =>
               \A k \in KeyOptions :
                   validate_mic_token(wire.v, verdict.key_usage,
                                      [params EXCEPT !.session_key = k]) = verdict.res
        /\ (~params.sub_session_key.some /\ params.session_key.some) =>
               validate_mic_token(wire.v, verdict.key_usage,
                                  [params EXCEPT !.sub_session_key = params.session_key,
                                                 !.session_key = None]) = verdict.res

\* a token signed under the generator's key for this verification: mechanism
\* list as payload, key usage and strength of the generator
SignedForVerifier ==
    /\ verdict.called /\ Untouched /\ verdict.key_usage = INITIATOR_SIGN
    /\ gen.payload = MechListDer /\ StrengthOfGenerator

\* C3 as stated: the sub-session key is chosen if present, else the session
\* key, and with a sub-session key the result does not depend on the session
\* key; a token made under key K verifies Ok with sub_session_key = K whatever
\* the session key, and fails with MessageAltered when only a different
\* session key is given.
C3_KeyPrecedenceAnyStaleKey ==
    /\ KeyPrecedence
    /\ (SignedForVerifier /\ params.sub_session_key = Some(gen.session_key))
           => verdict.res.ok
    /\ (SignedForVerifier /\ ~params.sub_session_key.some /\ params.session_key.some
            /\ params.session_key.v # gen.session_key)
           => verdict.res.kind = "MessageAltered"

\* C3 amended: as stated, but a different session key alone gives
\* MessageAltered only when it has the key length of the strength; a key of
\* another length gives the error of the checksum primitive.
C3_KeyPrecedence ==
    /\ KeyPrecedence
    /\ (SignedForVerifier /\ params.sub_session_key = Some(gen.session_key))
           => verdict.res.ok
    /\ (SignedForVerifier /\ ~params.sub_session_key.some /\ params.session_key.some
            /\ params.session_key.v # gen.session_key)
           => verdict.res.kind =
                  IF Len(params.session_key.v) = Len(gen.session_key)
                  THEN "MessageAltered" ELSE "EncodingFailure"

C3_Witness ==
    /\ SignedForVerifier
    /\ params.sub_session_key = Some(gen.session_key)
    /\ params.session_key.some /\ params.session_key.v # gen.session_key
    /\ verdict.res.ok

\* C4 as stated: for every raw token and key usage, the verifier given params
\* with neither key returns DecryptFailure.
C4_NoKeyAnyToken ==
    (verdict.called /\ ~params.session_key.some /\ ~params.sub_session_key.some)
    => verdict.res.kind = "DecryptFailure"

\* C4 amended: for every raw token that decodes as a MIC token and every key
\* usage, the verifier given params with neither key returns DecryptFailure;
\* a token that does not decode gives the decode error first.
C4_NoKey ==
    (verdict.called /\ ~params.session_key.some /\ ~params.sub_session_key.some)
    => verdict.res.kind =
           IF decode(wire.v).ok THEN "DecryptFailure" ELSE "TokenDecodeFailure"

C4_Witness ==
    /\ verdict.called /\ ~params.session_key.some /\ ~params.sub_session_key.some
    /\ origin.made = "foreign" /\ decode(wire.v).ok
    /\ verdict.res.kind = "DecryptFailure"

\* C8: the token the generator returns has the initiator flag, the given
\* sequence number and the checksum of (key, INITIATOR_SIGN, payload ++ its
\* header, Aes256), whatever the strength in the params; the generator
\* returns an error when the checksum primitive fails, and so no token
\* without its whole checksum.
C8_GeneratedToken ==
    gen.called =>
        LET signed == IF gen.res.ok THEN gen.payload \o SubSeq(gen.res.val, 1, HeaderLen)
                      ELSE gen.payload \o header(with_seq_number(with_initiator_flags,
                                                                 gen.seq_number))
            expected == checksum_sha_aes(gen.session_key, INITIATOR_SIGN, signed, "Aes256")
        IN  IF gen.res.ok
            THEN /\ Len(gen.res.val) = HeaderLen + checksum_length("Aes256")
                 /\ SubSeq(gen.res.val, 1, 2) = MIC_TOKEN_ID
                 /\ is_initiator(gen.res.val[3])
                 /\ SubSeq(gen.res.val, 4, 8) = MIC_FILLER
                 /\ SubSeq(gen.res.val, 9, 16) = to_be_bytes(gen.seq_number, 8)
                 /\ expected.ok
                 /\ Tail0(gen.res.val, HeaderLen) = expected.val
            ELSE /\ ~expected.ok
                 /\ gen.res.kind = expected.kind
                 /\ gen.res.val = <<>>
                 /\ ~wire.some

C8_Witness ==
    /\ gen.called /\ gen.res.ok
    /\ params.aes_strength = "Aes128"
    /\ gen.seq_number = MaxSeq
    /\ Untouched

\* the checksum the verifier expects for the token in flight: of the selected
\* key, the caller's key usage, the mechanism list and the header of the
\* token, at the strength of the params or Aes256
ExpectedChecksum ==
    checksum_sha_aes(IF params.sub_session_key.some THEN params.sub_session_key.v
                                                    ELSE params.session_key.v,
                     verdict.key_usage,
                     MechListDer \o SubSeq(wire.v, 1, HeaderLen),
                     IF params.aes_strength = "Unset" THEN "Aes256" ELSE params.aes_strength)

Decidable ==
    /\ verdict.called
    /\ decode(wire.v).ok
    /\ params.sub_session_key.some \/ params.session_key.some

\* C9 as stated: for a token that decodes and a key that is available, the
\* verifier returns Ok exactly when the checksum field equals the expected
\* checksum, and MessageAltered in every other case.
C9_OkIffChecksumElseAltered ==
    Decidable =>
        IF ExpectedChecksum.ok /\ Tail0(wire.v, HeaderLen) = ExpectedChecksum.val
        THEN verdict.res.ok
        ELSE verdict.res.kind = "MessageAltered"

\* C9 amended: for a token that decodes and an available key that the
\* checksum primitive accepts at the strength of the params (Aes256 when
\* unset), the verifier returns Ok exactly when the checksum field equals the
\* expected checksum, and MessageAltered otherwise; when the primitive
\* rejects the key, the verifier returns the primitive's error.
C9_OkIffChecksum ==
    Decidable =>
        IF ~ExpectedChecksum.ok THEN verdict.res.kind = ExpectedChecksum.kind
        ELSE IF Tail0(wire.v, HeaderLen) = ExpectedChecksum.val
        THEN verdict.res.ok
        ELSE verdict.res.kind = "MessageAltered"

C9_Witness ==
    /\ Decidable
    /\ params.aes_strength = "Aes128"
    /\ ExpectedChecksum.ok
    /\ verdict.key_usage = ACCEPTOR_SIGN
    /\ verdict.res.kind = "MessageAltered"

----------------------------------------------------------------------------
(* Properties of parse_target_name (SpecSpn) *)

NoSlash(s) == \A i \in 1..Len(s) : s[i] # Slash

Parsed == spn.op = "parse_target_name"

\* C5: for all non-empty a and b without '/', parse_target_name(a + "/" + b)
\* succeeds and returns exactly (a, b).
C5_RoundTrip ==
    Parsed =>
        \A a \in Names, b \in Names :
            (Len(a) > 0 /\ Len(b) > 0 /\ NoSlash(a) /\ NoSlash(b)
                /\ spn.arg.v = a \o <<Slash>> \o b)
            => (spn.res.ok /\ spn.res.val = <<a, b>>)

C5_Witness ==
    /\ Parsed
    /\ spn.arg.v = <<69, 69, Slash, 112>>
    /\ spn.res.ok /\ spn.res.val = <<(<<69, 69>>), (<<112>>)>>

\* C6: parse_target_name returns InvalidParameter, and neither panics nor
\* returns a pair, for every input without '/', with its first '/' first, or
\* with its first '/' last, the empty string and "/" included.
C6_Invalid ==
    Parsed =>
        LET s == spn.arg.v
            first == {i \in 1..Len(s) : s[i] = Slash /\ \A j \in 1..(i - 1) : s[j] # Slash}
        IN  (NoSlash(s) \/ first = {1} \/ first = {Len(s)})
            => (~spn.res.ok /\ spn.res.kind = "InvalidParameter" /\ spn.res.val = <<>>)

C6_Witness ==
    /\ Parsed
    /\ spn.arg.v = <<69, 112, Slash>>
    /\ spn.res.kind = "InvalidParameter"

\* C10: when parse_target_name(s) succeeds with (service, instance), service
\* is non-empty without '/', instance is non-empty, and
\* service ++ "/" ++ instance is s.
C10_Split ==
    (Parsed /\ spn.res.ok) =>
        /\ Len(spn.res.val) = 2
        /\ Len(spn.res.val[1]) > 0 /\ NoSlash(spn.res.val[1])
        /\ Len(spn.res.val[2]) > 0
        /\ spn.res.val[1] \o <<Slash>> \o spn.res.val[2] = spn.arg.v

\* an instance that holds a further '/'
C10_Witness ==
    /\ Parsed /\ spn.res.ok
    /\ spn.arg.v = <<69, Slash, Slash, 112>>
    /\ spn.res.val = <<(<<69>>), (<<Slash, 112>>)>>

----------------------------------------------------------------------------
(* Properties of serialize_message (SpecFrame) *)

\* C7: for every value the encoder accepts, serialize_message returns a
\* buffer of 4 + len(encoded body) bytes whose first 4 bytes, read as a
\* big-endian unsigned 32-bit integer, are len(output) - 4, whatever the
\* length of the encoded body.
C7_LengthPrefix ==
    (framed.op = "serialize_message" /\ framed.arg.encodable) =>
        /\ framed.res.ok
        /\ framed.res.val.len = usize_add(framed.arg.der_len, usize(4))
        /\ Len(framed.res.val.head) = 4
        /\ usize_add(be_u32_as_usize(framed.res.val.head), usize(4)) = framed.res.val.len

====
